---------------------------- MODULE Spec2Model ----------------------------
(***************************************************************************)
(* Model of src/main.rs: a window, a wgpu device and surface               *)
(* (RenderContext), a pipeline and a vertex buffer (Renderer), and the     *)
(* winit event loop that dispatches resize, close and redraw events to     *)
(* them on a single thread.                                                *)
(*                                                                         *)
(* pc is the position of the single thread.  The windowing system and the  *)
(* GPU driver are the environment: which events arrive, whether a surface  *)
(* texture is available and whether the driver reports a validation error  *)
(* are nondeterministic choices.                                           *)
(***************************************************************************)
EXTENDS Integers, Sequences, FiniteSets, TLC

\* ------------------------------------------------------------- bounds
\* Largest width and height a window or a Resized event can carry.
MaxDim == 1
\* Number of events the windowing system delivers in one run.
MaxEvents == 4

Dims == 0..MaxDim

\* ---------------------------------------------------------- constants
\* size_of::<Vertex>() : two f32.
VERTEX_SIZE == 8

\* Option<T>: None is the empty sequence, Some(x) the one-element sequence.
None == <<>>
Some(x) == <<x>>

\* The lists Surface::get_supported_formats may return for the adapter.
SupportedFormatLists ==
    { <<>>,
      <<"Bgra8UnormSrgb", "Rgba8UnormSrgb">>,
      <<"Rgba8UnormSrgb", "Bgra8UnormSrgb">> }

ValidationError == "Validation Error"

VARIABLES
    pc,             \* position of the main thread
    windowSize,     \* winit Window: inner size <<width, height>>
    redrawPending,  \* winit Window: a redraw was requested and not yet dispatched
    surfaceConfig,  \* Option<SurfaceConfiguration> last passed to configure
    format,         \* RenderContext.format (Option until constructed)
    adapterRequests,\* calls of Instance::request_adapter
    deviceRequests, \* calls of Adapter::request_device
    errorScopes,    \* the device's error-scope stack; each entry Option<Error>
    render_pipeline,\* Renderer.render_pipeline (Option until constructed)
    vertex_buffer,  \* Renderer.vertex_buffer contents (Option until constructed)
    ctorReported,   \* what the driver reported during Renderer::new
    flow,           \* the event loop's ControlFlow
    exitStatus,     \* Option<process exit status>
    eventsLeft,     \* events the windowing system may still deliver
    recent,         \* the last two events dispatched to the handler, in order
    dispatched,     \* number of events dispatched to the handler
    lastResize,     \* Option<<<w, h>>> of the last Resized event dispatched
    redrawRequests, \* calls of Window::request_redraw
    surface_texture,\* Option<the SurfaceTexture acquired by the running draw>
    cmd,            \* commands recorded by the running draw
    steps,          \* the steps the running (or last) draw has performed
    drawResult,     \* Option<Error> returned by the last draw
    drawCalls,      \* draws started ("draw" lines on stdout)
    drawsReturned,  \* draws that returned to the event handler
    drawsAfterClose,\* draws started after CloseRequested was dispatched
    submitted,      \* command buffers submitted to the queue
    presented,      \* surface textures presented
    stderr          \* lines written to the error stream

ctxVars == <<windowSize, surfaceConfig, format, adapterRequests, deviceRequests>>
rendererVars == <<render_pipeline, vertex_buffer, ctorReported>>
loopVars == <<flow, exitStatus, eventsLeft, recent, dispatched, lastResize>>
drawVars == <<surface_texture, cmd, steps, drawResult, drawCalls,
              drawsReturned, drawsAfterClose, submitted, presented, stderr>>
vars == <<pc, ctxVars, rendererVars, loopVars, drawVars, errorScopes,
          redrawPending, redrawRequests>>

\* Positions inside Renderer::draw and the handler that called it.
DrawPcs == {"draw_acquire", "draw_record", "draw_submit", "draw_present",
            "draw_pop", "draw_ret"}
\* Positions inside event_loop.run.
LoopPcs == {"main_events", "redraw_events"} \cup DrawPcs

\* ------------------------------------------------------- pure helpers
\* A SurfaceConfiguration value.
SurfaceConfiguration(fmt, width, height, present_mode) ==
    [format |-> fmt, width |-> width, height |-> height,
     usage |-> "RENDER_ATTACHMENT", present_mode |-> present_mode]

\* Device::push_error_scope.
push_error_scope(stack) == Append(stack, None)

\* A validation error raised by a device call: the innermost open scope
\* keeps the first error it sees.
report_error(stack, err) ==
    IF stack = <<>> \/ err = None \/ stack[Len(stack)] # None
    THEN stack
    ELSE [stack EXCEPT ![Len(stack)] = err]

\* Device::pop_error_scope: the scope's error and the remaining stack.
pop_error_scope_result(stack) == stack[Len(stack)]
pop_error_scope_stack(stack) == SubSeq(stack, 1, Len(stack) - 1)

\* What the driver may report for one device call.
DriverReports == {None, Some(ValidationError)}

\* Little-endian bytes of the f32 values the triangle uses.
F32LE(x) ==
    CASE x = -1 -> <<0, 0, 128, 191>>
      [] x = 0  -> <<0, 0, 0, 0>>
      [] x = 1  -> <<0, 0, 128, 63>>

\* bytemuck::cast_slice of a slice of Vertex { pos: [f32; 2] }.
RECURSIVE cast_slice(_)
cast_slice(vs) ==
    IF vs = <<>> THEN <<>>
    ELSE F32LE(vs[1][1]) \o F32LE(vs[1][2]) \o cast_slice(Tail(vs))

TriangleVertices == << <<-1, -1>>, <<0, 1>>, <<1, -1>> >>

\* The RenderPipelineDescriptor Renderer::new builds for a surface format.
RenderPipelineDescriptor(fmt) ==
    [vertex_entry |-> "vertex", fragment_entry |-> "fragment",
     array_stride |-> VERTEX_SIZE, step_mode |-> "Vertex",
     attributes |-> << [location |-> 0, format |-> "Float32x2", offset |-> 0] >>,
     targets |-> <<fmt>>, bind_group_layouts |-> <<>>,
     depth_stencil |-> None, multiview |-> None]

\* The render pass Renderer::draw records.
RenderPass(pipeline, buffer) ==
    << [op |-> "clear", color |-> "RED", store |-> TRUE],
       [op |-> "set_pipeline", pipeline |-> pipeline],
       [op |-> "set_vertex_buffer", slot |-> 0, buffer |-> buffer],
       [op |-> "draw", vertices |-> <<0, 3>>, instances |-> <<0, 1>>] >>

\* Events of the windowing system.
Resized(w, h) == [type |-> "Resized", width |-> w, height |-> h]
CloseRequested == [type |-> "CloseRequested", width |-> 0, height |-> 0]
RedrawRequested == [type |-> "RedrawRequested", width |-> 0, height |-> 0]
Ignored(t) == [type |-> t, width |-> 0, height |-> 0]

\* The handler is called with event e.
dispatch(e) ==
    /\ recent' = IF Len(recent) < 2 THEN Append(recent, e)
                 ELSE <<recent[2], e>>
    /\ dispatched' = dispatched + 1

Poll == <<"Poll">>
ExitWithCode(code) == <<"ExitWithCode", code>>

\* --------------------------------------------------------------- Init
Init ==
    /\ pc = "context_new"
    /\ windowSize \in Dims \X Dims
    /\ redrawPending = FALSE
    /\ surfaceConfig = None
    /\ format = None
    /\ adapterRequests = 0
    /\ deviceRequests = 0
    /\ errorScopes = <<>>
    /\ render_pipeline = None
    /\ vertex_buffer = None
    /\ ctorReported = None
    /\ flow = Poll
    /\ exitStatus = None
    /\ eventsLeft = MaxEvents
    /\ recent = <<>>
    /\ dispatched = 0
    /\ lastResize = None
    /\ redrawRequests = 0
    /\ surface_texture = None
    /\ cmd = <<>>
    /\ steps = <<>>
    /\ drawResult = None
    /\ drawCalls = 0
    /\ drawsReturned = 0
    /\ drawsAfterClose = 0
    /\ submitted = 0
    /\ presented = 0
    /\ stderr = 0

\* A panic of the main thread: the process ends with Rust's panic status.
Panic ==
    /\ pc' = "panicked"
    /\ exitStatus' = Some(101)


\* ------------------------------------------------------------ startup
\* RenderContext::new: window, instance, surface, adapter, first supported
\* format, device and queue, initial surface configuration.  Every step
\* that cannot succeed panics (expect, or indexing an empty list).
RenderContext_new ==
    /\ pc = "context_new"
    /\ \E windowOk \in BOOLEAN, adapterOk \in BOOLEAN, deviceOk \in BOOLEAN,
          formats \in SupportedFormatLists :
          /\ adapterRequests' = IF windowOk THEN adapterRequests + 1
                                ELSE adapterRequests
          /\ deviceRequests' = IF windowOk /\ adapterOk /\ formats # <<>>
                               THEN deviceRequests + 1 ELSE deviceRequests
          /\ IF windowOk /\ adapterOk /\ formats # <<>> /\ deviceOk
             THEN /\ format' = Some(formats[1])
                  /\ surfaceConfig' =
                         Some(SurfaceConfiguration(formats[1], windowSize[1],
                                                   windowSize[2], "AutoVsync"))
                  /\ pc' = "main_push_scope"
                  /\ UNCHANGED exitStatus
             ELSE /\ Panic
                  /\ UNCHANGED <<format, surfaceConfig>>
    /\ UNCHANGED <<windowSize, rendererVars, flow, eventsLeft, recent,
                   dispatched, lastResize, drawVars, errorScopes, redrawPending,
                   redrawRequests>>

\* main: context.device.push_error_scope(ErrorFilter::Validation).
main_push_scope ==
    /\ pc = "main_push_scope"
    /\ errorScopes' = push_error_scope(errorScopes)
    /\ pc' = "renderer_new"
    /\ UNCHANGED <<ctxVars, rendererVars, loopVars, drawVars, redrawPending,
                   redrawRequests>>

\* Renderer::new: shader module, pipeline layout, pipeline, vertex buffer.
\* The driver may report a validation error for any of the device calls.
Renderer_new ==
    /\ pc = "renderer_new"
    /\ \E err \in DriverReports :
          /\ errorScopes' = report_error(errorScopes, err)
          /\ ctorReported' = err
    /\ render_pipeline' = Some(RenderPipelineDescriptor(format[1]))
    /\ vertex_buffer' = Some(cast_slice(TriangleVertices))
    /\ pc' = "main_pop_scope"
    /\ UNCHANGED <<ctxVars, loopVars, drawVars, redrawPending,
                   redrawRequests>>

\* Variant of main_pop_scope: the scope's result is dropped unread.
main_pop_scope_ignored ==
    /\ pc = "main_pop_scope"
    /\ errorScopes' = pop_error_scope_stack(errorScopes)
    /\ pc' = "main_events"
    /\ UNCHANGED <<ctxVars, rendererVars, loopVars, drawVars, redrawPending,
                   redrawRequests>>

\* main: if let Some(error) = block_on(pop_error_scope()) { panic!(..) },
\* otherwise event_loop.run starts.
main_pop_scope ==
    /\ pc = "main_pop_scope"
    /\ errorScopes' = pop_error_scope_stack(errorScopes)
    /\ IF pop_error_scope_result(errorScopes) # None
       THEN Panic
       ELSE /\ pc' = "main_events"
            /\ UNCHANGED exitStatus
    /\ UNCHANGED <<ctxVars, rendererVars, flow, eventsLeft,
                   recent, dispatched, lastResize, drawVars, redrawPending,
                   redrawRequests>>

\* --------------------------------------------------------- event loop
\* Variant of handler_free: draw is spawned instead of blocked on, so window
\* events are dispatched while a draw is still running.
handler_free_async(phase) ==
    pc = phase \/ (phase = "main_events" /\ pc \in DrawPcs)

\* The thread is inside event_loop.run and no handler is running: the
\* handlers run to completion (block_on) before run dispatches again.
handler_free(phase) == pc = phase

\* Variant of resize: the new size is added to the configured one.
resize_delta(width, height) ==
    /\ surfaceConfig' =
           Some(SurfaceConfiguration(format[1],
                                     surfaceConfig[1].width + width,
                                     surfaceConfig[1].height + height,
                                     "Fifo"))
    /\ redrawPending' = TRUE
    /\ redrawRequests' = redrawRequests + 1

\* Variant of resize: a zero dimension is clamped to 1.
resize_clamped(width, height) ==
    /\ surfaceConfig' =
           Some(SurfaceConfiguration(format[1],
                                     IF width = 0 THEN 1 ELSE width,
                                     IF height = 0 THEN 1 ELSE height,
                                     "Fifo"))
    /\ redrawPending' = TRUE
    /\ redrawRequests' = redrawRequests + 1

\* Variant of resize: only the repaint is requested, the surface keeps its
\* configuration.
resize_no_configure(width, height) ==
    /\ UNCHANGED surfaceConfig
    /\ redrawPending' = TRUE
    /\ redrawRequests' = redrawRequests + 1

\* RenderContext::resize.
resize(width, height) ==
    /\ surfaceConfig' =
           Some(SurfaceConfiguration(format[1], width, height, "Fifo"))
    /\ redrawPending' = TRUE
    /\ redrawRequests' = redrawRequests + 1

\* WindowEvent::Resized(size) => context.resize(size.width, size.height).
window_resized ==
    /\ handler_free("main_events")
    /\ eventsLeft > 0
    /\ \E w \in Dims, h \in Dims :
          /\ windowSize' = <<w, h>>
          /\ resize(w, h)
          /\ dispatch(Resized(w, h))
          /\ lastResize' = Some(<<w, h>>)
    /\ eventsLeft' = eventsLeft - 1
    /\ UNCHANGED <<pc, format, adapterRequests, deviceRequests, rendererVars,
                   flow, exitStatus, drawVars, errorScopes>>

\* Variant of close_requested: the loop is asked to exit with status 1.
close_requested_status1 ==
    /\ handler_free("main_events")
    /\ eventsLeft > 0
    /\ flow' = ExitWithCode(1)
    /\ dispatch(CloseRequested)
    /\ UNCHANGED lastResize
    /\ eventsLeft' = eventsLeft - 1
    /\ UNCHANGED <<pc, ctxVars, rendererVars, exitStatus, drawVars,
                   errorScopes, redrawPending, redrawRequests>>

\* WindowEvent::CloseRequested => *flow = ControlFlow::ExitWithCode(0).
close_requested ==
    /\ handler_free("main_events")
    /\ eventsLeft > 0
    /\ flow' = ExitWithCode(0)
    /\ dispatch(CloseRequested)
    /\ UNCHANGED lastResize
    /\ eventsLeft' = eventsLeft - 1
    /\ UNCHANGED <<pc, ctxVars, rendererVars, exitStatus, drawVars,
                   errorScopes, redrawPending, redrawRequests>>

\* Any other window event, and any other event: _ => {}.
ignored_event ==
    /\ handler_free("main_events")
    /\ eventsLeft > 0
    /\ \E t \in {"WindowEvent::Other", "Event::Other"} :
          dispatch(Ignored(t))
    /\ UNCHANGED lastResize
    /\ eventsLeft' = eventsLeft - 1
    /\ UNCHANGED <<pc, ctxVars, rendererVars, flow, exitStatus,
                   drawVars, errorScopes, redrawPending, redrawRequests>>

\* The windowing system invalidates the window: a redraw becomes pending.
os_invalidate ==
    /\ handler_free("main_events")
    /\ eventsLeft > 0
    /\ ~redrawPending
    /\ redrawPending' = TRUE
    /\ eventsLeft' = eventsLeft - 1
    /\ UNCHANGED <<pc, ctxVars, rendererVars, flow, exitStatus, recent,
                   dispatched, lastResize, drawVars, errorScopes,
                   redrawRequests>>

\* The loop has dispatched the iteration's window events; redraws follow.
main_events_cleared ==
    /\ handler_free("main_events")
    /\ pc' = "redraw_events"
    /\ UNCHANGED <<ctxVars, rendererVars, loopVars, drawVars, errorScopes,
                   redrawPending, redrawRequests>>

\* Event::RedrawRequested => block_on(renderer.draw(&context)): the handler
\* enters draw, which prints "draw" and pushes a validation scope.
redraw_requested ==
    /\ handler_free("redraw_events")
    /\ redrawPending
    /\ redrawPending' = FALSE
    /\ dispatch(RedrawRequested)
    /\ UNCHANGED lastResize
    /\ drawCalls' = drawCalls + 1
    /\ drawsAfterClose' = IF flow # Poll THEN drawsAfterClose + 1
                          ELSE drawsAfterClose
    /\ errorScopes' = push_error_scope(errorScopes)
    /\ steps' = <<"push_error_scope">>
    /\ pc' = "draw_acquire"
    /\ UNCHANGED <<ctxVars, rendererVars, flow, exitStatus, eventsLeft,
                   surface_texture, cmd, drawResult, drawsReturned,
                   submitted, presented, stderr, redrawRequests>>

\* The iteration ends: with ControlFlow::ExitWithCode(code) set, run ends
\* the process with that status; otherwise the next iteration starts.
redraw_events_cleared ==
    /\ handler_free("redraw_events")
    /\ ~redrawPending
    /\ IF flow # Poll
       THEN /\ pc' = "exited"
            /\ exitStatus' = Some(flow[2])
       ELSE /\ pc' = "main_events"
            /\ UNCHANGED exitStatus
    /\ UNCHANGED <<ctxVars, rendererVars, flow, eventsLeft, recent,
                   dispatched, lastResize, drawVars, errorScopes, redrawPending,
                   redrawRequests>>


\* --------------------------------------------------------------- draw
\* The SurfaceTexture get_current_texture hands out under a configuration.
current_texture(config) ==
    [width |-> config.width, height |-> config.height,
     format |-> config.format]

\* surface.get_current_texture().expect(..): a texture of the configured
\* surface, or a panic when none can be acquired.
draw_acquire ==
    /\ pc = "draw_acquire"
    /\ \E acquired \in BOOLEAN :
          IF acquired
          THEN /\ surface_texture' = Some(current_texture(surfaceConfig[1]))
               /\ steps' = Append(steps, "get_current_texture")
               /\ pc' = "draw_record"
               /\ UNCHANGED exitStatus
          ELSE /\ Panic
               /\ UNCHANGED <<surface_texture, steps>>
    /\ UNCHANGED <<ctxVars, rendererVars, flow, eventsLeft, recent,
                   dispatched, lastResize, cmd, drawResult, drawCalls,
                   drawsReturned,
                   drawsAfterClose, submitted, presented, stderr, errorScopes,
                   redrawPending, redrawRequests>>

\* create_view, create_command_encoder, begin_render_pass .. finish.
draw_record ==
    /\ pc = "draw_record"
    /\ cmd' = RenderPass(render_pipeline[1], vertex_buffer[1])
    /\ \E err \in DriverReports :
          errorScopes' = report_error(errorScopes, err)
    /\ steps' = Append(steps, "render_pass")
    /\ pc' = "draw_submit"
    /\ UNCHANGED <<ctxVars, rendererVars, loopVars, surface_texture,
                   drawResult, drawCalls, drawsReturned, drawsAfterClose,
                   submitted, presented, stderr, redrawPending,
                   redrawRequests>>

\* context.queue.submit([cmd]).
draw_submit ==
    /\ pc = "draw_submit"
    /\ submitted' = submitted + 1
    /\ \E err \in DriverReports :
          errorScopes' = report_error(errorScopes, err)
    /\ steps' = Append(steps, "submit")
    /\ pc' = "draw_present"
    /\ UNCHANGED <<ctxVars, rendererVars, loopVars, surface_texture, cmd,
                   drawResult, drawCalls, drawsReturned, drawsAfterClose,
                   presented, stderr, redrawPending, redrawRequests>>

\* Variant of draw_present: the surface is configured again after present.
draw_present_reconfigure ==
    /\ pc = "draw_present"
    /\ presented' = presented + 1
    /\ surface_texture' = None
    /\ surfaceConfig' =
           Some(SurfaceConfiguration(format[1], windowSize[1], windowSize[2],
                                     "AutoVsync"))
    /\ steps' = Append(steps, "present")
    /\ pc' = "draw_pop"
    /\ UNCHANGED <<windowSize, format, adapterRequests, deviceRequests,
                   rendererVars, loopVars, cmd, drawResult, drawCalls,
                   drawsReturned, drawsAfterClose, submitted, stderr,
                   errorScopes, redrawPending, redrawRequests>>

\* surface_texture.present().
draw_present ==
    /\ pc = "draw_present"
    /\ presented' = presented + 1
    /\ surface_texture' = None
    /\ steps' = Append(steps, "present")
    /\ pc' = "draw_pop"
    /\ UNCHANGED <<ctxVars, rendererVars, loopVars, cmd, drawResult,
                   drawCalls, drawsReturned, drawsAfterClose, submitted,
                   stderr, errorScopes, redrawPending, redrawRequests>>

\* Variant of draw_pop: the scope's error is read but the scope stays open.
draw_pop_leak ==
    /\ pc = "draw_pop"
    /\ drawResult' = pop_error_scope_result(errorScopes)
    /\ steps' = Append(steps, "pop_error_scope")
    /\ pc' = "draw_ret"
    /\ UNCHANGED <<ctxVars, rendererVars, loopVars, surface_texture, cmd,
                   drawCalls, drawsReturned, drawsAfterClose, submitted,
                   presented, stderr, errorScopes, redrawPending,
                   redrawRequests>>

\* Variant of draw_pop: a validation error in the scope panics inside draw.
draw_pop_unwrap ==
    /\ pc = "draw_pop"
    /\ drawResult' = pop_error_scope_result(errorScopes)
    /\ errorScopes' = pop_error_scope_stack(errorScopes)
    /\ steps' = Append(steps, "pop_error_scope")
    /\ IF pop_error_scope_result(errorScopes) # None
       THEN Panic
       ELSE /\ pc' = "draw_ret"
            /\ UNCHANGED exitStatus
    /\ UNCHANGED <<ctxVars, rendererVars, flow, eventsLeft, recent,
                   dispatched, lastResize, surface_texture, cmd, drawCalls,
                   drawsReturned, drawsAfterClose, submitted, presented,
                   stderr, redrawPending, redrawRequests>>

\* context.device.pop_error_scope().await: the value draw returns.
draw_pop ==
    /\ pc = "draw_pop"
    /\ drawResult' = pop_error_scope_result(errorScopes)
    /\ errorScopes' = pop_error_scope_stack(errorScopes)
    /\ steps' = Append(steps, "pop_error_scope")
    /\ pc' = "draw_ret"
    /\ UNCHANGED <<ctxVars, rendererVars, loopVars, surface_texture, cmd,
                   drawCalls, drawsReturned, drawsAfterClose, submitted,
                   presented, stderr, redrawPending, redrawRequests>>

\* Variant of draw_ret: the handler panics on the error instead of printing.
draw_ret_fatal ==
    /\ pc = "draw_ret"
    /\ drawsReturned' = drawsReturned + 1
    /\ IF drawResult # None
       THEN Panic
       ELSE /\ pc' = "redraw_events"
            /\ UNCHANGED exitStatus
    /\ UNCHANGED <<ctxVars, rendererVars, flow, eventsLeft, recent,
                   dispatched, lastResize, surface_texture, cmd, steps,
                   drawResult, drawCalls, drawsAfterClose, submitted,
                   presented, stderr, errorScopes, redrawPending,
                   redrawRequests>>

\* if let Some(error) = block_on(..) { eprintln!("draw: {error}") }: the
\* handler returns to the event loop.
draw_ret ==
    /\ pc = "draw_ret"
    /\ stderr' = IF drawResult # None THEN stderr + 1 ELSE stderr
    /\ drawsReturned' = drawsReturned + 1
    /\ pc' = "redraw_events"
    /\ UNCHANGED <<ctxVars, rendererVars, loopVars, surface_texture, cmd,
                   steps, drawResult, drawCalls, drawsAfterClose, submitted,
                   presented, errorScopes, redrawPending, redrawRequests>>

\* ------------------------------------------------------ specification
Next ==
    \/ RenderContext_new
    \/ main_push_scope
    \/ Renderer_new
    \/ main_pop_scope
    \/ window_resized
    \/ close_requested
    \/ ignored_event
    \/ os_invalidate
    \/ main_events_cleared
    \/ redraw_requested
    \/ redraw_events_cleared
    \/ draw_acquire
    \/ draw_record
    \/ draw_submit
    \/ draw_present
    \/ draw_pop
    \/ draw_ret

Spec == Init /\ [][Next]_vars


\* ------------------------------------------------------------- claims
\* This step hands event e to the handler.
IsDispatchOf(e) ==
    /\ dispatched' = dispatched + 1
    /\ recent'[Len(recent')] = e

\* The presentation modes that neither block nor wait for vertical sync.
NoSyncPresentModes == {"AutoNoVsync", "Immediate", "Mailbox"}

DrawSteps == <<"push_error_scope", "get_current_texture", "render_pass",
               "submit", "present", "pop_error_scope">>

\* C1 as stated: once CloseRequested has been dispatched the loop ends with
\* status 0 and no draw is started any more, pending redraws included.
C1_NoDrawAfterClose ==
    [][flow # Poll =>
          /\ drawCalls' = drawCalls
          /\ (pc' = "exited" => exitStatus' = Some(0))]_vars

\* C1 amended: once CloseRequested has been dispatched the control flow
\* stays ExitWithCode(0), no new loop iteration starts and the process
\* exits with status 0 when the current iteration ends; a redraw already
\* pending in that iteration is still dispatched and drawn, at most once.
C1_ExitAfterIteration ==
    [][flow # Poll =>
          /\ flow' = ExitWithCode(0)
          /\ pc # "exited"
          /\ (pc = "redraw_events" => pc' # "main_events")
          /\ (pc = "redraw_events" /\ ~redrawPending => pc' = "exited")
          /\ (pc' = "exited" => exitStatus' = Some(0))
          /\ (drawCalls' # drawCalls =>
                 pc = "redraw_events" /\ redrawPending)
          /\ drawsAfterClose' <= 1]_vars

C1_Witness ==
    /\ pc = "exited"
    /\ exitStatus = Some(0)
    /\ drawsAfterClose = 1
    /\ drawsReturned = drawCalls

\* C2: a validation error reported inside the scope around Renderer::new
\* panics before the loop starts: the loop never runs, and no event is ever
\* dispatched, with such an error reported.
C2_CtorErrorIsFatal ==
    ctorReported # None =>
        /\ pc \in {"main_pop_scope", "panicked"}
        /\ dispatched = 0
        /\ drawCalls = 0

C2_Witness ==
    /\ pc = "panicked"
    /\ ctorReported = Some(ValidationError)
    /\ errorScopes = <<>>

\* C3: the handler's return from a draw, with an error or without, writes
\* at most one line to the error stream and changes nothing else; the loop
\* goes on, and the step after an erroneous draw is a step of the loop.
C3_DrawErrorNonFatal ==
    [][/\ pc = "draw_ret" =>
             /\ pc' = "redraw_events"
             /\ stderr' = IF drawResult # None THEN stderr + 1 ELSE stderr
             /\ UNCHANGED <<ctxVars, rendererVars, loopVars, errorScopes,
                            redrawPending, redrawRequests, surface_texture,
                            cmd, submitted, presented, drawCalls,
                            drawResult>>
       /\ pc \in {"main_events", "redraw_events"} /\ drawResult # None =>
             pc' \in LoopPcs \cup {"exited"}]_vars

C3_Witness ==
    /\ drawResult = Some(ValidationError)
    /\ stderr = 1
    /\ drawsReturned = 1
    /\ recent = <<RedrawRequested, Resized(1, 0)>>
    /\ pc = "main_events"

\* C4: a Resized(w, h) dispatched right after a Resized(w, h) leaves the
\* surface configuration as the first one left it.
C4_ResizeIdempotent ==
    [][\A w \in Dims, h \in Dims :
          (/\ Len(recent) > 0
           /\ recent[Len(recent)] = Resized(w, h)
           /\ IsDispatchOf(Resized(w, h)))
          => surfaceConfig' = surfaceConfig]_vars

C4_Witness ==
    /\ dispatched = 2
    /\ recent = <<Resized(1, 0), Resized(1, 0)>>
    /\ surfaceConfig[1].width = 1
    /\ surfaceConfig[1].height = 0

\* C5: inside the loop nothing changes the pipeline, the vertex buffer or
\* the format, all as Renderer::new and RenderContext::new left them, and
\* only the dispatch of a Resized event changes the surface configuration:
\* no step of a draw does.
C5_DrawReadOnly ==
    [][(pc \in LoopPcs) =>
          /\ render_pipeline' = render_pipeline
          /\ vertex_buffer' = vertex_buffer
          /\ format' = format
          /\ render_pipeline = Some(RenderPipelineDescriptor(format[1]))
          /\ Len(vertex_buffer[1]) = 3 * VERTEX_SIZE
          /\ (surfaceConfig' # surfaceConfig =>
                 /\ pc = "main_events"
                 /\ dispatched' = dispatched + 1
                 /\ recent'[Len(recent')].type = "Resized")]_vars

C5_Witness ==
    /\ drawsReturned = 2
    /\ recent = <<RedrawRequested, RedrawRequested>>
    /\ lastResize = None
    /\ surfaceConfig[1].present_mode = "AutoVsync"
    /\ vertex_buffer = Some(<<0, 0, 128, 191, 0, 0, 128, 191,
                              0, 0, 0, 0, 0, 0, 128, 63,
                              0, 0, 128, 63, 0, 0, 128, 191>>)

\* C6 as stated: every resize(w, h) configures the surface to w by h in the
\* fixed format with a presentation mode that neither blocks nor syncs, and
\* requests one repaint.
C6_ResizeNoSync ==
    [][\A w \in Dims, h \in Dims :
          IsDispatchOf(Resized(w, h)) =>
              /\ surfaceConfig'[1].width = w
              /\ surfaceConfig'[1].height = h
              /\ surfaceConfig'[1].format = format[1]
              /\ surfaceConfig'[1].present_mode \in NoSyncPresentModes
              /\ redrawRequests' = redrawRequests + 1]_vars

\* C6 amended: every resize(w, h) configures the surface to exactly w by h
\* (zero included) in the fixed format, for render-attachment usage, with
\* the presentation mode Fifo (blocking, synchronised to the display), and
\* requests one repaint.
C6_ResizeFifo ==
    [][\A w \in Dims, h \in Dims :
          IsDispatchOf(Resized(w, h)) =>
              /\ surfaceConfig' =
                     Some([format |-> format[1], width |-> w, height |-> h,
                           usage |-> "RENDER_ATTACHMENT",
                           present_mode |-> "Fifo"])
              /\ redrawRequests' = redrawRequests + 1
              /\ redrawPending'
              /\ format' = format]_vars

C6_Witness ==
    /\ recent # <<>>
    /\ recent[Len(recent)] = Resized(0, 1)
    /\ surfaceConfig[1].width = 0
    /\ surfaceConfig[1].height = 1
    /\ surfaceConfig[1].present_mode = "Fifo"
    /\ redrawPending

\* C7: the texture a draw acquires after a Resized(w, h) has the size of the
\* most recent resize and the format chosen at startup, and inside the loop
\* the adapter and the device have been requested exactly once.
C7_DrawAfterResize ==
    /\ pc \in LoopPcs \cup {"exited"} =>
          /\ adapterRequests = 1
          /\ deviceRequests = 1
          /\ format # None
    /\ surface_texture # None /\ lastResize # None =>
          /\ surface_texture[1].width = lastResize[1][1]
          /\ surface_texture[1].height = lastResize[1][2]
          /\ surface_texture[1].format = format[1]

C7_Witness ==
    /\ surface_texture # None
    /\ lastResize = Some(<<1, 0>>)
    /\ recent = <<Resized(1, 0), RedrawRequested>>
    /\ windowSize = <<1, 0>>
    /\ drawsReturned = 1

\* C8: while a draw runs no event is dispatched, the surface is not
\* reconfigured and no other draw starts: the draw goes on, returns to the
\* loop or panics, and at most one draw is ever unfinished.
C8_NoInterleaving ==
    [][/\ pc \in DrawPcs =>
             /\ dispatched' = dispatched
             /\ eventsLeft' = eventsLeft
             /\ surfaceConfig' = surfaceConfig
             /\ drawCalls' = drawCalls
             /\ pc' \in DrawPcs \cup {"redraw_events", "panicked"}
       /\ drawCalls' - drawsReturned' <= 1
       /\ (surface_texture' # None => drawCalls' - drawsReturned' = 1)]_vars

C8_Witness ==
    /\ pc = "draw_present"
    /\ surface_texture # None
    /\ eventsLeft > 0
    /\ drawCalls = 2
    /\ drawsReturned = 1

\* C9: a draw that reaches its end has performed push, acquire, render pass,
\* submit, present, pop in this order, the pass being clear, set pipeline,
\* set vertex buffer, draw of 3 vertices; between events the error-scope
\* stack is empty and one command buffer was submitted and one texture
\* presented per returned draw.
C9_DrawSteps ==
    /\ pc \in {"main_events", "redraw_events", "exited"} =>
          /\ errorScopes = <<>>
          /\ submitted = drawsReturned
          /\ presented = drawsReturned
          /\ drawCalls = drawsReturned
          /\ surface_texture = None
    /\ pc = "draw_ret" \/ (pc \notin DrawPcs /\ drawsReturned = drawCalls
                           /\ drawCalls > 0) =>
          /\ steps = DrawSteps
          /\ errorScopes = <<>>
          /\ [i \in 1..Len(cmd) |-> cmd[i].op] =
                 <<"clear", "set_pipeline", "set_vertex_buffer", "draw">>
          /\ cmd[1].color = "RED"
          /\ cmd[2].pipeline = render_pipeline[1]
          /\ cmd[3].slot = 0 /\ cmd[3].buffer = vertex_buffer[1]
          /\ cmd[4].vertices = <<0, 3>> /\ cmd[4].instances = <<0, 1>>
    /\ pc \in DrawPcs =>
          /\ steps = SubSeq(DrawSteps, 1, Len(steps))
          /\ Len(errorScopes) = IF pc = "draw_ret" THEN 0 ELSE 1

C9_Witness ==
    /\ pc = "main_events"
    /\ drawsReturned = 2
    /\ submitted = 2
    /\ presented = 2
    /\ steps = DrawSteps

\* C10: a draw ends the process only by the panic of a failed texture
\* acquisition, before anything of that frame is submitted or presented,
\* and after a panic nothing happens any more.
C10_AcquireFailureFatal ==
    [][/\ pc \in DrawPcs /\ pc' \notin LoopPcs =>
             /\ pc = "draw_acquire"
             /\ pc' = "panicked"
             /\ exitStatus' # Some(0)
             /\ surface_texture' = None
             /\ submitted' = drawsReturned /\ presented' = drawsReturned
             /\ dispatched' = dispatched
       /\ pc # "panicked"]_vars

C10_Witness ==
    /\ pc = "panicked"
    /\ drawCalls = 2
    /\ drawsReturned = 1
    /\ stderr = 1
    /\ submitted = 1
    /\ presented = 1
    /\ Len(errorScopes) = 1

=============================================================================
